---- MODULE Spec2Model ----
(***************************************************************************)
(* NeuralTrade ML engine: the /predict and /feedback handlers of           *)
(* services/ml-engine/app/main.py, the SignalPredictor pipeline and the    *)
(* FMEA RiskAssessor with its rolling outcome history.                     *)
(*                                                                         *)
(* Numbers.  Prices and volumes are integers (ticks).  Probabilities and   *)
(* thresholds on probabilities are integer percents.  A float the code     *)
(* obtains by a division is kept as an exact fraction [num, den] and       *)
(* compared by cross-multiplication.  Price levels are integers in units   *)
(* of 1/LevelDen tick.                                                     *)
(***************************************************************************)
EXTENDS Integers, Sequences, FiniteSets, TLC

VARIABLES
    historical_accuracy,  \* RiskAssessor.historical_accuracy: Seq of 1 (1.0) / 0 (0.0)
    recorded,             \* every was_correct passed to record_outcome, in append order
    request,              \* the /predict request being handled, or None
    observed,             \* what the assess call of this request read: clock and history length
    risk_assessment,      \* the RiskAssessment returned by assess for this request, or None
    response,             \* the HTTP response of this request, or None
    pc,                   \* per thread: position inside record_outcome
    local,                \* per thread: the slice historical_accuracy[-100:] before it is assigned
    inference             \* a direct call of _predict_direction / _predict_shadow and what it returned

vars ==
    <<historical_accuracy, recorded, request, observed, risk_assessment, response, pc, local,
      inference>>

\* Optional values are sequences of length 0 or 1
None == <<>>

Some(x) == <<x>>

NotLoaded == "None"

(***************************************************************************)
(* Bounds of the model.                                                    *)
(***************************************************************************)
MaxCalls == 102      \* record_outcome calls explored by the history specifications
MaxFlips == 1        \* changes of value along the recorded outcomes
ShortCalls == 10     \* record_outcome calls explored next to the full /predict inputs
ShortFlips == 0      \* changes of value along those

(***************************************************************************)
(* Program constants.                                                      *)
(***************************************************************************)
risk_max_data_age_seconds == 5
STALE_DATA_MAX_AGE_MS == risk_max_data_age_seconds * 1000
DRIFT_THRESHOLD == 15            \* 0.15, in percent
MIN_CONFIDENCE == 85             \* 0.85, in percent
RPN_LOW == 100
RPN_MEDIUM == 200
RPN_HIGH == 400
HISTORY_CAP == 100
DRIFT_WINDOW == 10
ATR_PERIOD == 14
MIN_CANDLES == 50
MAX_CANDLES == 500
\* common denominator of the levels: atr / 13, 1.5 atr, 0.98 and 1.02 of the price
LevelDen == 50 * (ATR_PERIOD - 1)

(***************************************************************************)
(* Arithmetic helpers.                                                     *)
(***************************************************************************)
Abs(x) == IF x < 0 THEN -x ELSE x

Max2(a, b) == IF a >= b THEN a ELSE b

Min2(a, b) == IF a <= b THEN a ELSE b

RECURSIVE SumSeq(_)
SumSeq(s) == IF s = <<>> THEN 0 ELSE Head(s) + SumSeq(Tail(s))

\* s[-n:] of Python: the last n elements, the whole list when it is shorter
LastN(s, n) == IF Len(s) <= n THEN s ELSE SubSeq(s, Len(s) - n + 1, Len(s))

Frac(n, d) == [num |-> n, den |-> d]

FracLe(f, k) == f.num <= k * f.den

(***************************************************************************)
(* schemas/signal.py: candles, requests, risk factors.                     *)
(***************************************************************************)
LONG == "long"
SHORT == "short"
NEUTRAL == "neutral"

LOW == "low"
MEDIUM == "medium"
HIGH == "high"
CRITICAL == "critical"

OHLCVData(ts, o, h, l, c, v) ==
    [timestamp |-> ts, open |-> o, high |-> h, low |-> l, close |-> c, volume |-> v]

\* Field(gt=0) on the prices, Field(ge=0) on the volume; the validator of `high`
\* runs before `low` is validated, so info.data holds no "low" and it never rejects
OHLCVDataValid(c) ==
    /\ c.open > 0 /\ c.high > 0 /\ c.low > 0 /\ c.close > 0
    /\ c.volume >= 0

\* candles: list[OHLCVData] = Field(min_length=50, max_length=500)
CandlesValid(candles) ==
    /\ Len(candles) >= MIN_CANDLES
    /\ Len(candles) <= MAX_CANDLES
    /\ \A i \in 1..Len(candles) : OHLCVDataValid(candles[i])

RiskFactor(name, category, score) == [name |-> name, category |-> category, score |-> score]

RiskFactorValid(f) == f.score >= 0 /\ f.score <= 10

\* RiskAssessment: risk_score in [0, 1000]; severity, occurrence, detection in [1, 10]
RiskAssessmentValid(a) ==
    /\ a.risk_score.num >= 0 /\ FracLe(a.risk_score, 1000)
    /\ a.severity_score.num >= a.severity_score.den /\ FracLe(a.severity_score, 10)
    /\ a.occurrence_score >= 1 /\ a.occurrence_score <= 10
    /\ a.detection_score >= 1 /\ a.detection_score <= 10
    /\ \A i \in 1..Len(a.factors) : RiskFactorValid(a.factors[i])

(***************************************************************************)
(* The candle windows explored.                                            *)
(***************************************************************************)
\* A window is kept by its shape; Window(shape) is its list of one-minute
\* candles.  The market shapes are MIN_CANDLES candles around 1000 ticks.
\* spike: one close jumps by 10.1%.  wide: the last 14 candles range over 6%
\* of the price instead of 1%.  thin: the last volume is 40% of the usual one.
Shape(kind, s, w, t) == [kind |-> kind, spike |-> s, wide |-> w, thin |-> t]

Shapes ==
    {Shape("market", s, w, t) : s \in BOOLEAN, w \in BOOLEAN, t \in BOOLEAN}

\* Further request bodies:
\*   flat       every price 1000 and every volume 0
\*   hundred    close 100, high 101, low 99: price 100 and ATR 2
\*   gaps       closes alternate between 1000 and 1040, candles 10 ticks high
\*   jumps      closes alternate between 1000 and 1060, candles 10 ticks high
\*   wild       close 100, high 201, low 1
\*   inverted   as market, the last candle with high 995 below low 1005
\*   unordered  as market, the last candle carrying the timestamp of the one before
\*   short      MIN_CANDLES - 1 candles
\*   long       MAX_CANDLES + 1 candles
EdgeKinds ==
    {"flat", "hundred", "gaps", "jumps", "wild", "inverted", "unordered", "short", "long"}

EdgeShapes == {Shape(kind, FALSE, FALSE, FALSE) : kind \in EdgeKinds}

AllShapes == Shapes \cup EdgeShapes

WindowLen(shape) ==
    CASE shape.kind = "short" -> MIN_CANDLES - 1
      [] shape.kind = "long" -> MAX_CANDLES + 1
      [] OTHER -> MIN_CANDLES

MarketCandle(shape, i, n) ==
    LET close == IF shape.spike /\ i = 20 THEN 1101 ELSE 1000
        half == IF shape.wide /\ i > n - ATR_PERIOD THEN 30 ELSE 5
    IN  OHLCVData(i * 60000, close, close + half, close - half, close,
                  IF shape.thin /\ i = n THEN 40 ELSE 100)

Window(shape) ==
    LET n == WindowLen(shape)
    IN  [i \in 1..n |->
            CASE shape.kind = "flat" -> OHLCVData(i * 60000, 1000, 1000, 1000, 1000, 0)
              [] shape.kind = "hundred" -> OHLCVData(i * 60000, 100, 101, 99, 100, 100)
              [] shape.kind = "gaps" ->
                    LET close == IF i % 2 = 0 THEN 1040 ELSE 1000
                    IN  OHLCVData(i * 60000, close, close + 5, close - 5, close, 100)
              [] shape.kind = "jumps" ->
                    LET close == IF i % 2 = 0 THEN 1060 ELSE 1000
                    IN  OHLCVData(i * 60000, close, close + 5, close - 5, close, 100)
              [] shape.kind = "wild" -> OHLCVData(i * 60000, 100, 201, 1, 100, 100)
              [] shape.kind = "inverted" /\ i = n ->
                    OHLCVData(i * 60000, 1000, 995, 1005, 1000, 100)
              [] shape.kind = "unordered" /\ i = n ->
                    OHLCVData((i - 1) * 60000, 1000, 1005, 995, 1000, 100)
              [] OTHER -> MarketCandle(shape, i, n)]

\* SignalRequest: the candles (by shape) and request_timestamp
SignalRequest(shape, ts) == [window |-> shape, request_timestamp |-> ts]

\* the request bodies FastAPI accepts
SignalRequestValid == [shape \in AllShapes |-> CandlesValid(Window(shape))]

(***************************************************************************)
(* services/risk_assessor.py                                               *)
(***************************************************************************)
\* mutant of KeepLast: the slice [:100], which drops the newest entry
KeepFirst(h) == SubSeq(h, 1, HISTORY_CAP)

\* the trim of record_outcome: self.historical_accuracy[-100:]
KeepLast(h) == LastN(h, HISTORY_CAP)

\* record_outcome run to completion
RecordOutcome(h, was_correct) ==
    LET appended == Append(h, IF was_correct THEN 1 ELSE 0)
    IN  IF Len(appended) > HISTORY_CAP THEN KeepLast(appended) ELSE appended

\* mutant of DetectDrift: no minimum sample
DetectDriftAnyLength(h) ==
    SumSeq(LastN(h, DRIFT_WINDOW)) * 100 < (100 - DRIFT_THRESHOLD) * DRIFT_WINDOW

\* mutant of DetectDrift: the mean of the whole history instead of the last 10
DetectDriftWholeHistory(h) ==
    IF Len(h) < DRIFT_WINDOW
    THEN FALSE
    ELSE Cardinality({i \in 1..Len(h) : h[i] = 1}) * 100 < (100 - DRIFT_THRESHOLD) * Len(h)

\* _detect_drift: sum(h[-10:]) / 10 < 1 - DRIFT_THRESHOLD, in percent
DetectDrift(h) ==
    IF Len(h) < DRIFT_WINDOW
    THEN FALSE
    ELSE SumSeq(LastN(h, DRIFT_WINDOW)) * 100 < (100 - DRIFT_THRESHOLD) * DRIFT_WINDOW

\* mutant of IsStale: >= instead of >
IsStaleInclusive(now, request_timestamp) == now - request_timestamp >= STALE_DATA_MAX_AGE_MS

\* is_stale = data_age_ms > STALE_DATA_MAX_AGE_MS
IsStale(now, request_timestamp) == now - request_timestamp > STALE_DATA_MAX_AGE_MS

\* price_changes[i] = abs(prices[i] - prices[i-1]) / prices[i-1]
PriceChanges(candles) ==
    [i \in 1..(Len(candles) - 1) |->
        Frac(Abs(candles[i + 1].close - candles[i].close), candles[i].close)]

FracMax2(a, b) == IF a.num * b.den >= b.num * a.den THEN a ELSE b

\* max over s[lo..hi], by halves
RECURSIVE FracMax(_, _, _)
FracMax(s, lo, hi) ==
    IF lo = hi THEN s[lo]
    ELSE FracMax2(FracMax(s, lo, (lo + hi) \div 2), FracMax(s, (lo + hi) \div 2 + 1, hi))

\* max_change = max(price_changes) if price_changes else 0
MaxChange(candles) ==
    IF Len(candles) <= 1 THEN Frac(0, 1)
    ELSE FracMax(PriceChanges(candles), 1, Len(candles) - 1)

\* max_change > 0.1
IsAnomalous(candles) == LET m == MaxChange(candles) IN 10 * m.num > m.den

\* volatility_pct = (avg_range / avg_price) * 100 > 5 with
\* avg_range = sum(high - low) / len(highs), avg_price = sum(close) / 14
IsVolatile(candles) ==
    LET last == LastN(candles, ATR_PERIOD)
        ranges == SumSeq([i \in 1..Len(last) |-> last[i].high - last[i].low])
        closes == SumSeq([i \in 1..Len(last) |-> last[i].close])
    IN  ranges * ATR_PERIOD * 100 > 5 * closes * Len(last)

\* last_volume < avg_volume * 0.5 with avg_volume = sum(volume) / 14
IsIlliquid(candles) ==
    LET last == LastN(candles, ATR_PERIOD)
        volumes == SumSeq([i \in 1..Len(last) |-> last[i].volume])
    IN  candles[Len(candles)].volume * ATR_PERIOD * 2 < volumes

\* the divisions of assess raise ZeroDivisionError on a zero divisor:
\* prices[i-1], len(highs) and avg_price
AssessRaises(candles) ==
    \/ \E i \in 1..(Len(candles) - 1) : candles[i].close = 0
    \/ Len(candles) = 0
    \/ SumSeq([i \in 1..Len(LastN(candles, ATR_PERIOD)) |->
                  LastN(candles, ATR_PERIOD)[i].close]) = 0

\* the checks on request.candles, evaluated once for each explored window
Market ==
    [shape \in AllShapes |->
        [raises |-> AssessRaises(Window(shape)),
         anomalous |-> IsAnomalous(Window(shape)),
         volatile |-> IsVolatile(Window(shape)),
         illiquid |-> IsIlliquid(Window(shape))]]

\* one check of assess: when it fires it appends a factor and a mitigation
When(cond, factor, mitigation) ==
    IF cond THEN <<[factor |-> factor, mitigation |-> mitigation]>> ELSE <<>>

\* mutant of Checks: an if / elif chain, only the first check that fires counts
ChecksFirstOnly(h, req, now, direction, confidence, shadow_agreed) ==
    IF IsStale(now, req.request_timestamp)
    THEN When(TRUE, RiskFactor("Stale Data", "data", 8), "Reject signal and request fresh data")
    ELSE IF Market[req.window].anomalous
    THEN When(TRUE, RiskFactor("Anomalous Price Movement", "data", 7),
              "Verify data integrity before execution")
    ELSE IF confidence < MIN_CONFIDENCE
    THEN When(TRUE, RiskFactor("Low Model Confidence", "model", 6),
              "Reduce position size or skip trade")
    ELSE IF ~shadow_agreed
    THEN When(TRUE, RiskFactor("Model Disagreement", "model", 7),
              "Wait for model consensus before entry")
    ELSE IF DetectDrift(h)
    THEN When(TRUE, RiskFactor("Model Drift Detected", "model", 9),
              "Trigger model retraining pipeline")
    ELSE IF Market[req.window].volatile
    THEN When(TRUE, RiskFactor("High Volatility", "market", 5),
              "Widen stop-loss or reduce leverage")
    ELSE IF Market[req.window].illiquid
    THEN When(TRUE, RiskFactor("Low Liquidity", "market", 4),
              "Use limit orders to avoid slippage")
    ELSE When(direction = NEUTRAL, RiskFactor("Neutral Signal", "execution", 3),
              "Wait for stronger signal confirmation")

\* the checks of assess that fired, in the order of the code
Checks(h, req, now, direction, confidence, shadow_agreed) ==
       When(IsStale(now, req.request_timestamp),
            RiskFactor("Stale Data", "data", 8),
            "Reject signal and request fresh data")
    \o When(Market[req.window].anomalous,
            RiskFactor("Anomalous Price Movement", "data", 7),
            "Verify data integrity before execution")
    \o When(confidence < MIN_CONFIDENCE,
            RiskFactor("Low Model Confidence", "model", 6),
            "Reduce position size or skip trade")
    \o When(~shadow_agreed,
            RiskFactor("Model Disagreement", "model", 7),
            "Wait for model consensus before entry")
    \o When(DetectDrift(h),
            RiskFactor("Model Drift Detected", "model", 9),
            "Trigger model retraining pipeline")
    \o When(Market[req.window].volatile,
            RiskFactor("High Volatility", "market", 5),
            "Widen stop-loss or reduce leverage")
    \o When(Market[req.window].illiquid,
            RiskFactor("Low Liquidity", "market", 4),
            "Use limit orders to avoid slippage")
    \o When(direction = NEUTRAL,
            RiskFactor("Neutral Signal", "execution", 3),
            "Wait for stronger signal confirmation")

\* factors=factors in the returned RiskAssessment: the list the checks appended to
ReturnedFactors(checks) == [i \in 1..Len(checks) |-> checks[i].factor]

\* mutant of Severity: the sum of the scores, not their mean
SeveritySum(factors) ==
    IF factors = <<>> THEN Frac(1, 1)
    ELSE Frac(SumSeq([i \in 1..Len(factors) |-> factors[i].score]), 1)

\* severity = sum(f.score for f in factors) / len(factors) if factors else 1.0
Severity(factors) ==
    IF factors = <<>> THEN Frac(1, 1)
    ELSE Frac(SumSeq([i \in 1..Len(factors) |-> factors[i].score]), Len(factors))

\* mutant of Occurrence: no cap at 10
OccurrenceUncapped(factors) == Len(factors) * 2 + 1

\* occurrence = min(10, len(factors) * 2 + 1)
Occurrence(factors) == Min2(10, Len(factors) * 2 + 1)

\* mutant of Detection: the two values exchanged
DetectionInverted(shadow_agreed) == IF shadow_agreed THEN 6 ELSE 4

\* detection = 4.0 if shadow_agreed else 6.0
Detection(shadow_agreed) == IF shadow_agreed THEN 4 ELSE 6

\* rpn = severity * occurrence * detection
Rpn(severity, occurrence, detection) ==
    Frac(severity.num * occurrence * detection, severity.den)

\* mutant of Classify: < instead of <=
ClassifyExclusive(rpn) ==
    IF rpn.num < RPN_LOW * rpn.den THEN LOW
    ELSE IF rpn.num < RPN_MEDIUM * rpn.den THEN MEDIUM
    ELSE IF rpn.num < RPN_HIGH * rpn.den THEN HIGH
    ELSE CRITICAL

\* the if / elif chain on rpn
Classify(rpn) ==
    IF FracLe(rpn, RPN_LOW) THEN LOW
    ELSE IF FracLe(rpn, RPN_MEDIUM) THEN MEDIUM
    ELSE IF FracLe(rpn, RPN_HIGH) THEN HIGH
    ELSE CRITICAL

\* mutant of Assess: the flags are left at False when their factor is appended
AssessUnflagged(h, req, now, direction, confidence, shadow_agreed) ==
    LET checks == Checks(h, req, now, direction, confidence, shadow_agreed)
        factors == [i \in 1..Len(checks) |-> checks[i].factor]
        severity == Severity(factors)
        occurrence == Occurrence(factors)
        detection == Detection(shadow_agreed)
        rpn == Rpn(severity, occurrence, detection)
    IN  [risk_level |-> Classify(rpn),
         risk_score |-> rpn,
         severity_score |-> severity,
         occurrence_score |-> occurrence,
         detection_score |-> detection,
         factors |-> ReturnedFactors(checks),
         mitigations |-> [i \in 1..Len(checks) |-> checks[i].mitigation],
         is_stale_data |-> FALSE,
         is_drift_detected |-> FALSE,
         is_shadow_model_agreed |-> shadow_agreed]

\* assess: the RiskAssessment it builds
Assess(h, req, now, direction, confidence, shadow_agreed) ==
    LET checks == Checks(h, req, now, direction, confidence, shadow_agreed)
        factors == [i \in 1..Len(checks) |-> checks[i].factor]
        severity == Severity(factors)
        occurrence == Occurrence(factors)
        detection == Detection(shadow_agreed)
        rpn == Rpn(severity, occurrence, detection)
    IN  [risk_level |-> Classify(rpn),
         risk_score |-> rpn,
         severity_score |-> severity,
         occurrence_score |-> occurrence,
         detection_score |-> detection,
         factors |-> ReturnedFactors(checks),
         mitigations |-> [i \in 1..Len(checks) |-> checks[i].mitigation],
         is_stale_data |-> IsStale(now, req.request_timestamp),
         is_drift_detected |-> DetectDrift(h),
         is_shadow_model_agreed |-> shadow_agreed]

(***************************************************************************)
(* models/signal_predictor.py                                              *)
(***************************************************************************)
\* the columns of the feature matrix
FeatureColumns == <<"open", "high", "low", "close", "volume">>

SeqMin(s) == CHOOSE x \in {s[i] : i \in 1..Len(s)} : \A i \in 1..Len(s) : x <= s[i]

SeqMax(s) == CHOOSE x \in {s[i] : i \in 1..Len(s)} : \A i \in 1..Len(s) : x >= s[i]

\* mutant of ScaleColumn: no fallback, a constant column divides 0 by 0
ScaleColumnUnguarded(col) ==
    [i \in 1..Len(col) |-> Frac(col[i] - SeqMin(col), SeqMax(col) - SeqMin(col))]

\* min-max scaling of one column: (col - min) / (max - min), or 0.5 everywhere
ScaleColumn(col) ==
    IF SeqMax(col) > SeqMin(col)
    THEN [i \in 1..Len(col) |-> Frac(col[i] - SeqMin(col), SeqMax(col) - SeqMin(col))]
    ELSE [i \in 1..Len(col) |-> Frac(1, 2)]

\* _preprocess: the feature matrix, kept column by column; data.shape[1] raises
\* IndexError on an empty list of candles
Preprocess(candles) ==
    IF Len(candles) = 0
    THEN [raised |-> TRUE, data |-> <<>>]
    ELSE [raised |-> FALSE,
          data |-> [j \in 1..Len(FeatureColumns) |->
                      ScaleColumn([i \in 1..Len(candles) |-> candles[i][FeatureColumns[j]]])]]

\* _preprocess on each explored window, evaluated once
Features == [shape \in AllShapes |-> Preprocess(Window(shape))]

\* int(np.argmax(probs)): the first index holding the maximum (0-based)
ArgMax(probs) ==
    CHOOSE i \in 0..(Len(probs) - 1) :
        /\ \A j \in 0..(Len(probs) - 1) : probs[j + 1] <= probs[i + 1]
        /\ \A j \in 0..(i - 1) : probs[j + 1] < probs[i + 1]

\* direction_map = {0: LONG, 1: SHORT, 2: NEUTRAL}
DirectionMap(idx) == CASE idx = 0 -> LONG [] idx = 1 -> SHORT [] idx = 2 -> NEUTRAL

Raised == [raised |-> TRUE]

\* what a classifier does on the features of a request: it returns a probability
\* vector (percents) or raises
Returns(probs) == [raises |-> FALSE, probs |-> probs]

Raises == [raises |-> TRUE, probs |-> <<>>]

\* _predict_direction; `answer` is what self.model(x) does
PredictDirection(model, answer) ==
    IF model = NotLoaded
    THEN [raised |-> FALSE, direction |-> NEUTRAL, confidence |-> 50, probs |-> <<33, 34, 33>>]
    ELSE IF answer.raises
    THEN Raised
    ELSE [raised |-> FALSE, direction |-> DirectionMap(ArgMax(answer.probs)),
          confidence |-> answer.probs[ArgMax(answer.probs) + 1], probs |-> answer.probs]

\* _predict_shadow
PredictShadow(shadow_model, answer) ==
    IF shadow_model = NotLoaded
    THEN [raised |-> FALSE, direction |-> NEUTRAL, confidence |-> 50]
    ELSE IF answer.raises
    THEN Raised
    ELSE [raised |-> FALSE, direction |-> DirectionMap(ArgMax(answer.probs)),
          confidence |-> answer.probs[ArgMax(answer.probs) + 1]]

\* mutant of TrueRanges: the range high - low of each candle, gaps ignored
TrueRangesHighLow(last) ==
    [i \in 1..(Len(last) - 1) |-> last[i + 1].high - last[i + 1].low]

\* tr[1:]: max(high - low, |high - previous close|, |low - previous close|)
TrueRanges(last) ==
    [i \in 1..(Len(last) - 1) |->
        Max2(last[i + 1].high - last[i + 1].low,
             Max2(Abs(last[i + 1].high - last[i].close),
                  Abs(last[i + 1].low - last[i].close)))]

\* atr = np.mean(tr) over the 13 true ranges, in units of 1/LevelDen
Atr(candles) ==
    (SumSeq(TrueRanges(LastN(candles, ATR_PERIOD))) * LevelDen) \div (ATR_PERIOD - 1)

\* _calculate_levels, every level in units of 1/LevelDen
CalculateLevels(direction, candles) ==
    LET current_price == candles[Len(candles)].close * LevelDen
        atr == Atr(candles)
        entry == current_price
        stop_loss ==
            IF direction = LONG THEN current_price - (atr * 3) \div 2
            ELSE IF direction = SHORT THEN current_price + (atr * 3) \div 2
            ELSE (current_price * 98) \div 100
        take_profits ==
            IF direction = LONG
            THEN <<current_price + atr, current_price + atr * 2, current_price + atr * 3>>
            ELSE IF direction = SHORT
            THEN <<current_price - atr, current_price - atr * 2, current_price - atr * 3>>
            ELSE <<(current_price * 102) \div 100>>
        risk == Abs(entry - stop_loss)
        reward == Abs(take_profits[1] - entry)
    IN  [entry |-> entry, stop_loss |-> stop_loss, take_profits |-> take_profits,
         rr_ratio |-> IF risk > 0 THEN Frac(reward, risk) ELSE Frac(1, 1)]

\* _calculate_levels of each direction on each explored window, evaluated once
Levels ==
    [d \in {LONG, SHORT, NEUTRAL}, shape \in AllShapes |-> CalculateLevels(d, Window(shape))]

\* mutant of Predict: the more confident of the two models gives the signal
PredictMoreConfident(models, req, primary_answer, shadow_answer) ==
    LET primary == PredictDirection(models.model, primary_answer)
        shadow == PredictShadow(models.shadow_model, shadow_answer)
    IN  IF Features[req.window].raised \/ primary.raised \/ shadow.raised
        THEN Raised
        ELSE LET best == IF shadow.confidence > primary.confidence THEN shadow ELSE primary
                 levels == Levels[best.direction, req.window]
             IN  [raised |-> FALSE,
                  direction |-> best.direction,
                  confidence |-> best.confidence,
                  entry |-> levels.entry,
                  stop_loss |-> levels.stop_loss,
                  take_profits |-> levels.take_profits,
                  rr_ratio |-> levels.rr_ratio,
                  shadow_agreed |-> (primary.direction = shadow.direction)]

\* predict: preprocess, both inferences on the same features, the levels
Predict(models, req, primary_answer, shadow_answer) ==
    LET features == Features[req.window]
        primary == PredictDirection(models.model, primary_answer)
        shadow == PredictShadow(models.shadow_model, shadow_answer)
    IN  IF features.raised \/ primary.raised \/ shadow.raised
        THEN Raised
        ELSE LET levels == Levels[primary.direction, req.window]
             IN  [raised |-> FALSE,
                  direction |-> primary.direction,
                  confidence |-> primary.confidence,
                  entry |-> levels.entry,
                  stop_loss |-> levels.stop_loss,
                  take_profits |-> levels.take_profits,
                  rr_ratio |-> levels.rr_ratio,
                  shadow_agreed |-> (primary.direction = shadow.direction)]

\* SignalPrediction: confidence in [0, 1], entry_price > 0, stop_loss > 0,
\* take_profit of at least one element, risk_reward_ratio > 0
SignalPredictionValid(p) ==
    /\ p.confidence >= 0 /\ p.confidence <= 100
    /\ p.entry_price > 0
    /\ p.stop_loss > 0
    /\ Len(p.take_profit) >= 1
    /\ p.risk_reward_ratio.num > 0

\* SignalPredictor.__init__: _load_models leaves both models set
Models == [model |-> "loaded", shadow_model |-> "loaded"]

(***************************************************************************)
(* The inputs explored.                                                    *)
(***************************************************************************)
\* request_timestamp, and the readings of time.time() in ms: ages -100, 5000, 5001
RequestTimestamps == {1000}

Clock == {900, 6000, 6001}

PrimaryAnswers ==
    {Returns(<<90, 5, 5>>), Returns(<<5, 90, 5>>), Returns(<<5, 5, 90>>),
     Returns(<<85, 10, 5>>), Returns(<<84, 10, 6>>), Returns(<<50, 0, 50>>),
     Returns(<<30, 30, 40>>), Raises}

ShadowAnswers ==
    {Returns(<<90, 5, 5>>), Returns(<<5, 90, 5>>), Returns(<<5, 5, 90>>), Raises}

Requests == {SignalRequest(shape, ts) : shape \in Shapes, ts \in RequestTimestamps}

\* the one request of the history specifications: fresh, calm, both models long
CalmRequest == SignalRequest(Shape("market", FALSE, FALSE, FALSE), 1000)

CalmAnswer == Returns(<<90, 5, 5>>)

\* the bodies of the further requests
EdgeRequests == {SignalRequest(shape, ts) : shape \in EdgeShapes, ts \in RequestTimestamps}

\* the outputs of a classifier called directly: every vector of multiples of 10%
\* that sums to 100%, or an exception
ProbabilityVectors ==
    {v \in {<<10 * a, 10 * b, 100 - 10 * a - 10 * b>> : a \in 0..10, b \in 0..10} : v[3] >= 0}

DirectAnswers == {Returns(v) : v \in ProbabilityVectors} \cup {Raises}

\* self.model / self.shadow_model: None, or a network
ModelStates == {NotLoaded, "loaded"}

Threads == {1, 2}

\* changes of value along a sequence of outcomes
Flips(s) == Cardinality({i \in 1..(Len(s) - 1) : s[i] # s[i + 1]})

(***************************************************************************)
(* State machine.                                                          *)
(***************************************************************************)
\* lifespan: RiskAssessor() with an empty history; no request in flight
Init ==
    /\ historical_accuracy = <<>>
    /\ recorded = <<>>
    /\ request = None
    /\ observed = None
    /\ risk_assessment = None
    /\ response = None
    /\ pc = [t \in Threads |-> "idle"]
    /\ local = [t \in Threads |-> <<>>]
    /\ inference = None

\* POST /predict arrives; FastAPI validates the body into a SignalRequest
ReceivePredict(req) ==
    /\ request = None
    /\ SignalRequestValid[req.window]
    /\ request' = Some(req)
    /\ UNCHANGED <<historical_accuracy, recorded, observed, risk_assessment, response, pc, local,
                   inference>>

\* the 422 of FastAPI for a body that fails the validation of SignalRequest
HttpInvalid == [status |-> 422, success |-> FALSE, data |-> None]

\* POST /predict arrives with a body that SignalRequest rejects: the handler is not called
RejectPredict(req) ==
    /\ request = None
    /\ ~SignalRequestValid[req.window]
    /\ request' = Some(req)
    /\ response' = Some(HttpInvalid)
    /\ UNCHANGED <<historical_accuracy, recorded, observed, risk_assessment, pc, local,
                   inference>>

HttpError == [status |-> 500, success |-> FALSE, data |-> None]

HttpOk(prediction) == [status |-> 200, success |-> TRUE, data |-> Some(prediction)]

\* what the handler read from its environment
Observation(primary_answer, shadow_answer, predicted, assessed, now, history_len) ==
    [primary_answer |-> primary_answer, shadow_answer |-> shadow_answer,
     predicted |-> predicted, assessed |-> assessed, now |-> now, history_len |-> history_len]

\* SignalPrediction(...) of predict_signal
Prediction(p, ra) ==
    [direction |-> p.direction,
     confidence |-> p.confidence,
     entry_price |-> p.entry,
     stop_loss |-> p.stop_loss,
     take_profit |-> p.take_profits,
     risk_reward_ratio |-> p.rr_ratio,
     risk_assessment |-> ra]

\* predict_signal: predict, assess, build the SignalPrediction; any exception
\* becomes HTTP 500
PredictSignal(primary_answer, shadow_answer, now) ==
    /\ request # None
    /\ response = None
    /\ \E p \in {Predict(Models, request[1], primary_answer, shadow_answer)} :
          IF p.raised \/ Market[request[1].window].raises
          THEN /\ observed' = Some(Observation(primary_answer, shadow_answer, p, FALSE, 0, 0))
               /\ risk_assessment' = None
               /\ response' = Some(HttpError)
          ELSE \E ra \in {Assess(historical_accuracy, request[1], now,
                                 p.direction, p.confidence, p.shadow_agreed)} :
                  /\ observed' = Some(Observation(primary_answer, shadow_answer, p, TRUE,
                                                  now, Len(historical_accuracy)))
                  /\ IF ~RiskAssessmentValid(ra)
                     THEN /\ risk_assessment' = None
                          /\ response' = Some(HttpError)
                     ELSE /\ risk_assessment' = Some(ra)
                          /\ response' = IF SignalPredictionValid(Prediction(p, ra))
                                         THEN Some(HttpOk(Prediction(p, ra)))
                                         ELSE Some(HttpError)
    /\ UNCHANGED <<historical_accuracy, recorded, request, pc, local, inference>>

\* the response leaves; nothing of the request is kept
Respond ==
    /\ response # None
    /\ request' = None
    /\ observed' = None
    /\ risk_assessment' = None
    /\ response' = None
    /\ UNCHANGED <<historical_accuracy, recorded, pc, local, inference>>

\* POST /feedback run to completion: record_outcome(prediction_id, was_correct)
RecordFeedback(was_correct, limit, flips) ==
    /\ request = None
    /\ \A t \in Threads : pc[t] = "idle"
    /\ Len(recorded) < limit
    /\ Flips(Append(recorded, IF was_correct THEN 1 ELSE 0)) <= flips
    /\ historical_accuracy' = RecordOutcome(historical_accuracy, was_correct)
    /\ recorded' = Append(recorded, IF was_correct THEN 1 ELSE 0)
    /\ UNCHANGED <<request, observed, risk_assessment, response, pc, local, inference>>

(***************************************************************************)
(* record_outcome statement by statement, for callers on several threads.  *)
(***************************************************************************)
\* self.historical_accuracy.append(1.0 if was_correct else 0.0)
AppendOutcome(t, was_correct) ==
    /\ pc[t] = "idle"
    /\ Len(recorded) < MaxCalls
    /\ Flips(Append(recorded, IF was_correct THEN 1 ELSE 0)) <= MaxFlips
    /\ historical_accuracy' = Append(historical_accuracy, IF was_correct THEN 1 ELSE 0)
    /\ recorded' = Append(recorded, IF was_correct THEN 1 ELSE 0)
    /\ pc' = [pc EXCEPT ![t] = "test"]
    /\ UNCHANGED <<request, observed, risk_assessment, response, local, inference>>

\* if len(self.historical_accuracy) > 100
LengthTest(t) ==
    /\ pc[t] = "test"
    /\ pc' = [pc EXCEPT ![t] = IF Len(historical_accuracy) > HISTORY_CAP THEN "slice" ELSE "idle"]
    /\ UNCHANGED <<historical_accuracy, recorded, request, observed, risk_assessment, response, local, inference>>

\* the right-hand side self.historical_accuracy[-100:], a new list
SliceLast(t) ==
    /\ pc[t] = "slice"
    /\ local' = [local EXCEPT ![t] = KeepLast(historical_accuracy)]
    /\ pc' = [pc EXCEPT ![t] = "assign"]
    /\ UNCHANGED <<historical_accuracy, recorded, request, observed, risk_assessment, response, inference>>

\* self.historical_accuracy = <the slice>
Reassign(t) ==
    /\ pc[t] = "assign"
    /\ historical_accuracy' = local[t]
    /\ local' = [local EXCEPT ![t] = <<>>]
    /\ pc' = [pc EXCEPT ![t] = "idle"]
    /\ UNCHANGED <<recorded, request, observed, risk_assessment, response, inference>>

(***************************************************************************)
(* The two inference methods called directly, on either state of the model *)
(* attribute.                                                              *)
(***************************************************************************)
\* self._predict_direction(features)
CallPredictDirection(model, answer) ==
    /\ inference' = Some([method |-> "_predict_direction", model |-> model, answer |-> answer,
                          result |-> PredictDirection(model, answer)])
    /\ UNCHANGED <<historical_accuracy, recorded, request, observed, risk_assessment, response,
                   pc, local>>

\* self._predict_shadow(features)
CallPredictShadow(shadow_model, answer) ==
    /\ inference' = Some([method |-> "_predict_shadow", model |-> shadow_model,
                          answer |-> answer, result |-> PredictShadow(shadow_model, answer)])
    /\ UNCHANGED <<historical_accuracy, recorded, request, observed, risk_assessment, response,
                   pc, local>>

Next ==
    \/ \E w \in BOOLEAN : RecordFeedback(w, ShortCalls, ShortFlips)
    \/ \E req \in Requests : ReceivePredict(req)
    \/ \E pa \in PrimaryAnswers, sa \in ShadowAnswers, now \in Clock : PredictSignal(pa, sa, now)
    \/ Respond

Spec == Init /\ [][Next]_vars

NextHist ==
    \/ \E w \in BOOLEAN : RecordFeedback(w, MaxCalls, MaxFlips)
    \/ ReceivePredict(CalmRequest)
    \/ PredictSignal(CalmAnswer, CalmAnswer, 6000)
    \/ Respond

SpecHist == Init /\ [][NextHist]_vars

\* two threads inside record_outcome
NextConc ==
    \/ \E t \in Threads, w \in BOOLEAN : AppendOutcome(t, w)
    \/ \E t \in Threads : LengthTest(t)
    \/ \E t \in Threads : SliceLast(t)
    \/ \E t \in Threads : Reassign(t)

SpecConc == Init /\ [][NextConc]_vars

\* one thread inside record_outcome while /predict is handled
NextRace ==
    \/ \E w \in BOOLEAN : AppendOutcome(1, w)
    \/ LengthTest(1)
    \/ SliceLast(1)
    \/ Reassign(1)
    \/ ReceivePredict(CalmRequest)
    \/ PredictSignal(CalmAnswer, CalmAnswer, 6000)
    \/ Respond

SpecRace == Init /\ [][NextRace]_vars

\* /predict on the further request bodies, valid or not
NextEdge ==
    \/ \E req \in EdgeRequests : ReceivePredict(req)
    \/ \E req \in EdgeRequests : RejectPredict(req)
    \/ \E pa \in PrimaryAnswers, sa \in ShadowAnswers, now \in Clock : PredictSignal(pa, sa, now)
    \/ Respond

SpecEdge == Init /\ [][NextEdge]_vars

\* the inference methods called directly
NextInfer ==
    \/ \E model \in ModelStates, answer \in DirectAnswers : CallPredictDirection(model, answer)
    \/ \E model \in ModelStates, answer \in DirectAnswers : CallPredictShadow(model, answer)

SpecInfer == Init /\ [][NextInfer]_vars

(***************************************************************************)
(* Properties.                                                             *)
(***************************************************************************)
Assessed == risk_assessment # None

HasFactor(a, name) == \E i \in 1..Len(a.factors) : a.factors[i].name = name

\* the outcomes among the last DRIFT_WINDOW recorded that were correct
RecentCorrect ==
    Cardinality({i \in (Len(recorded) - DRIFT_WINDOW + 1)..Len(recorded) : recorded[i] = 1})

\* C1: with record_outcome and assess applied one at a time, the history holds
\* at most 100 entries and is, in recording order, the last min(n, 100) of the
\* n outcomes recorded so far; assess leaves it as it is.
C1_HistoryIsLastOutcomes ==
    LET n == Len(recorded)
        k == Len(historical_accuracy)
    IN  /\ k <= 100
        /\ k = Min2(n, 100)
        /\ \A i \in 1..k : historical_accuracy[i] = recorded[n - k + i]

\* an assessment made after the 101st outcome evicted the oldest, a different, one
C1_Witness ==
    /\ Assessed
    /\ Len(recorded) = 101
    /\ recorded[1] # recorded[2]
    /\ historical_accuracy[1] = recorded[2]

\* C2: an assessment made on a history of fewer than 10 entries reports no
\* drift and carries no "Model Drift Detected" factor, whatever the outcomes.
C2_NoDriftBelowTenOutcomes ==
    (Assessed /\ Len(historical_accuracy) < 10) =>
        /\ ~risk_assessment[1].is_drift_detected
        /\ ~HasFactor(risk_assessment[1], "Model Drift Detected")

\* nine outcomes, every one incorrect, then an assessment
C2_Witness ==
    /\ Assessed
    /\ Len(historical_accuracy) = 9
    /\ \A i \in 1..9 : historical_accuracy[i] = 0

\* C3: on a history of at least 10 entries, drift is flagged, with a factor of
\* severity 9, exactly when fewer than 85% of the 10 most recently recorded
\* outcomes were correct; older outcomes do not count.
C3_DriftIffRecentAccuracyLow ==
    (Assessed /\ Len(historical_accuracy) >= 10) =>
        LET a == risk_assessment[1]
            low == RecentCorrect * 100 < (100 - DRIFT_THRESHOLD) * 10
        IN  /\ a.is_drift_detected <=> low
            /\ HasFactor(a, "Model Drift Detected") <=> low
            /\ \A i \in 1..Len(a.factors) :
                  a.factors[i].name = "Model Drift Detected" => a.factors[i].score = 9

\* drift flagged on a full history whose older entries were all correct
C3_Witness ==
    /\ Assessed
    /\ risk_assessment[1].is_drift_detected
    /\ Len(historical_accuracy) = 100
    /\ historical_accuracy[1] = 1
    /\ RecentCorrect = 8

\* C4: once every concurrent record_outcome call has returned, the history is
\* the last min(n, 100) outcomes appended, each exactly once.
C4_NoOutcomeLost ==
    (\A t \in Threads : pc[t] = "idle") =>
        LET n == Len(recorded)
            k == Len(historical_accuracy)
        IN  /\ k = Min2(n, 100)
            /\ \A i \in 1..k : historical_accuracy[i] = recorded[n - k + i]

\* C5: the history an assess call reads is the result of whole record_outcome
\* calls, so it never holds more than 100 entries.
C5_ReaderSeesWholeCalls ==
    (observed # None /\ observed[1].assessed) => observed[1].history_len <= 100

\* C6: the factors of a returned RiskAssessment are never empty: when no check
\* fires they hold one sentinel "no significant risk" entry.
C6_FactorsNeverEmpty ==
    Assessed => Len(risk_assessment[1].factors) >= 1

\* C7: the returned risk_level is the band of the returned risk_score, with
\* inclusive upper bounds: <= 100 LOW, <= 200 MEDIUM, <= 400 HIGH, else CRITICAL.
C7_LevelIsBandOfScore ==
    Assessed =>
        LET a == risk_assessment[1]
            r == a.risk_score
        IN  a.risk_level =
                IF r.num <= 100 * r.den THEN "low"
                ELSE IF r.num <= 200 * r.den THEN "medium"
                ELSE IF r.num <= 400 * r.den THEN "high"
                ELSE "critical"

\* a risk_score of exactly 400, classified HIGH
C7_Witness ==
    /\ Assessed
    /\ risk_assessment[1].risk_score.num = 400 * risk_assessment[1].risk_score.den
    /\ risk_assessment[1].risk_level = "high"

\* C8: severity is the mean of the factors' scores (1 without factors),
\* occurrence is min(10, 2 x factors + 1), detection is 4 when the models
\* agreed and 6 otherwise, and risk_score is their product.
C8_ScoresFollowFactors ==
    Assessed =>
        LET a == risk_assessment[1]
            n == Len(a.factors)
            total == SumSeq([i \in 1..n |-> a.factors[i].score])
            sev == a.severity_score
        IN  /\ IF n = 0 THEN sev.num = sev.den ELSE sev.num * n = total * sev.den
            /\ a.occurrence_score = IF 2 * n + 1 > 10 THEN 10 ELSE 2 * n + 1
            /\ a.detection_score = IF a.is_shadow_model_agreed THEN 4 ELSE 6
            /\ a.risk_score.num * sev.den =
                   sev.num * a.occurrence_score * a.detection_score * a.risk_score.den

\* five factors or more (occurrence capped at 10) with a fractional mean severity
C8_Witness ==
    /\ Assessed
    /\ Len(risk_assessment[1].factors) >= 5
    /\ risk_assessment[1].occurrence_score = 10
    /\ risk_assessment[1].severity_score.num % risk_assessment[1].severity_score.den # 0

\* C9: the assessment carries the "Stale Data" factor (category data, severity
\* 8) and is_stale_data exactly when the clock read by assess minus
\* request_timestamp exceeds max_age_ms.
C9_StaleIffOlderThanMaxAge ==
    Assessed =>
        LET a == risk_assessment[1]
            stale == observed[1].now - request[1].request_timestamp > 5 * 1000
        IN  /\ a.is_stale_data <=> stale
            /\ HasFactor(a, "Stale Data") <=> stale
            /\ \A i \in 1..Len(a.factors) :
                  a.factors[i].name = "Stale Data" =>
                      a.factors[i].category = "data" /\ a.factors[i].score = 8

\* a request one millisecond older than max_age_ms
C9_Witness ==
    /\ Assessed
    /\ observed[1].now - request[1].request_timestamp = 5001
    /\ risk_assessment[1].is_stale_data

\* C10: a classifier that raises does not fail the request: /predict still
\* answers 200 with a prediction and its risk assessment.
C10_InferenceFailureDegrades ==
    (response # None /\ (observed[1].primary_answer.raises \/ observed[1].shadow_answer.raises)) =>
        /\ response[1].status = 200
        /\ response[1].data # None
        /\ Assessed

\* a direct call of the given method has returned (or raised)
Called(method) == inference # None /\ inference[1].method = method

\* C11: with the primary model absent, _predict_direction answers NEUTRAL with
\* the fallback vector, and the confidence it returns is the probability of
\* the largest entry of that vector.
C11_FallbackConfidenceIsArgmaxMass ==
    (Called("_predict_direction") /\ inference[1].model = NotLoaded) =>
        LET r == inference[1].result
        IN  /\ ~r.raised
            /\ r.direction = "neutral"
            /\ \A i \in 1..Len(r.probs) : r.probs[i] <= r.confidence
            /\ \E i \in 1..Len(r.probs) : r.probs[i] = r.confidence

\* C12: both inference methods resolve a probability vector to the class of
\* the lowest index holding its maximum, the classes being ordered SELL/SHORT
\* (0), HOLD/NEUTRAL (1), BUY/LONG (2); so [0.5, 0.0, 0.5] gives SHORT.
C12_TiesResolveToLowestClass ==
    (inference # None /\ inference[1].model # NotLoaded /\ ~inference[1].answer.raises) =>
        LET probs == inference[1].answer.probs
            idx == CHOOSE i \in 1..3 :
                       /\ \A j \in 1..3 : probs[j] <= probs[i]
                       /\ \A j \in 1..(i - 1) : probs[j] < probs[i]
        IN  inference[1].result.direction = <<"short", "neutral", "long">>[idx]

\* the handler called predict and both classifiers returned a vector
Predicted ==
    /\ observed # None
    /\ ~observed[1].primary_answer.raises
    /\ ~observed[1].shadow_answer.raises

\* the direction the code reads from a vector: the first index of its maximum
\* in direction_map
DirectionOf(probs) ==
    LET idx == CHOOSE i \in 1..3 :
                   /\ \A j \in 1..3 : probs[j] <= probs[i]
                   /\ \A j \in 1..(i - 1) : probs[j] < probs[i]
    IN  <<"long", "short", "neutral">>[idx]

\* C13: predict returns the direction and the confidence of the primary
\* classifier, shadow_agreed tells whether the shadow's direction is the same,
\* and the levels are those of the primary direction on the request's window:
\* the shadow's answer changes none of direction, confidence and levels.
C13_PrimaryDecides ==
    Predicted =>
        LET p == observed[1].predicted
            primary == observed[1].primary_answer.probs
            shadow == observed[1].shadow_answer.probs
            levels == Levels[DirectionOf(primary), request[1].window]
        IN  /\ p.direction = DirectionOf(primary)
            /\ \A i \in 1..3 : primary[i] <= p.confidence
            /\ \E i \in 1..3 : primary[i] = p.confidence
            /\ p.shadow_agreed <=> (DirectionOf(primary) = DirectionOf(shadow))
            /\ p.entry = levels.entry
            /\ p.stop_loss = levels.stop_loss
            /\ p.take_profits = levels.take_profits
            /\ (response[1].status = 200) =>
                   /\ response[1].data[1].direction = DirectionOf(primary)
                   /\ response[1].data[1].confidence = p.confidence

\* a neutral primary at 0.40 next to a long shadow at 0.90: the signal is neutral
C13_Witness ==
    /\ Predicted
    /\ observed[1].primary_answer.probs = <<30, 30, 40>>
    /\ observed[1].shadow_answer.probs = <<90, 5, 5>>
    /\ response[1].status = 200
    /\ response[1].data[1].direction = "neutral"
    /\ ~observed[1].predicted.shadow_agreed

RECURSIVE Gcd(_, _)
Gcd(a, b) == IF b = 0 THEN a ELSE Gcd(b, a % b)

\* a fraction of non-negative terms in lowest terms
Lowest(f) == Frac(f.num \div Gcd(f.num, f.den), f.den \div Gcd(f.num, f.den))

\* the candles of the request being handled
Candles == Window(request[1].window)

\* the sum of the 13 true ranges over the last 14 candles of the request
TrueRangeSum ==
    LET n == Len(Candles)
        tr(i) == LET a == Candles[i].high - Candles[i].low
                     b == Abs(Candles[i].high - Candles[i - 1].close)
                     c == Abs(Candles[i].low - Candles[i - 1].close)
                 IN  IF a >= b /\ a >= c THEN a ELSE IF b >= c THEN b ELSE c
    IN  SumSeq([k \in 1..13 |-> tr(n - 13 + k)])

\* C14: with price the last close and ATR the mean of the 13 true ranges,
\* entry = price; LONG has stop = price - 1.5 ATR and targets price + ATR,
\* + 2 ATR, + 3 ATR; SHORT mirrors them; NEUTRAL has stop = 0.98 price and the
\* one target 1.02 price (98 and 102 at price 100); risk_reward is
\* |first target - entry| / |entry - stop|.  Levels are in 1/LevelDen ticks.
C14_LevelsFollowPriceAndAtr ==
    (Predicted /\ ~observed[1].predicted.raised) =>
        LET p == observed[1].predicted
            price == Candles[Len(Candles)].close
            tps == p.take_profits
            risk == Abs(p.entry - p.stop_loss)
        IN  /\ p.entry = price * LevelDen
            /\ (p.direction = "long") =>
                   /\ 2 * 13 * (p.entry - p.stop_loss) = 3 * TrueRangeSum * LevelDen
                   /\ Len(tps) = 3
                   /\ \A k \in 1..3 : 13 * (tps[k] - p.entry) = k * TrueRangeSum * LevelDen
            /\ (p.direction = "short") =>
                   /\ 2 * 13 * (p.stop_loss - p.entry) = 3 * TrueRangeSum * LevelDen
                   /\ Len(tps) = 3
                   /\ \A k \in 1..3 : 13 * (p.entry - tps[k]) = k * TrueRangeSum * LevelDen
            /\ (p.direction = "neutral") =>
                   /\ 100 * p.stop_loss = 98 * p.entry
                   /\ Len(tps) = 1
                   /\ 100 * tps[1] = 102 * p.entry
                   /\ (price = 100) =>
                          p.stop_loss = 98 * LevelDen /\ tps[1] = 102 * LevelDen
            /\ (risk > 0) => Lowest(p.rr_ratio) = Lowest(Frac(Abs(tps[1] - p.entry), risk))

\* a short signal on the window whose closes gap by 40 ticks: each true range
\* is 45 where high - low is 10
C14_Witness ==
    /\ Predicted
    /\ request[1].window.kind = "gaps"
    /\ observed[1].predicted.direction = "short"
    /\ TrueRangeSum = 13 * 45
    /\ Candles[Len(Candles)].close = 1040
    /\ observed[1].predicted.take_profits[3] = (1040 - 3 * 45) * LevelDen

\* C15: a LONG signal at price 100 with ATR 2.0 has stop_loss 97.0,
\* take_profits [102.0, 104.0, 106.0] and a risk/reward ratio of 1.0.
C15_LongExampleAtHundred ==
    (/\ Predicted
     /\ ~observed[1].predicted.raised
     /\ observed[1].predicted.direction = "long"
     /\ Candles[Len(Candles)].close = 100
     /\ TrueRangeSum = 13 * 2) =>
        LET p == observed[1].predicted
        IN  /\ p.stop_loss = 97 * LevelDen
            /\ p.take_profits = <<102 * LevelDen, 104 * LevelDen, 106 * LevelDen>>
            /\ p.rr_ratio.num = p.rr_ratio.den

\* C16: no arithmetic degeneracy raises on a validated window: predict and
\* assess both return; a feature column that is constant over the window is
\* 0.5 in every row; a zero risk |entry - stop_loss| gives risk_reward 1.0.
C16_DegenerateArithmeticFallsBack ==
    Predicted =>
        LET p == observed[1].predicted
            features == Features[request[1].window]
        IN  /\ ~p.raised
            /\ observed[1].assessed
            /\ ~features.raised
            /\ \A j \in 1..5 :
                  LET name == <<"open", "high", "low", "close", "volume">>[j]
                  IN  (\A i \in 1..Len(Candles) : Candles[i][name] = Candles[1][name]) =>
                          \A i \in 1..Len(Candles) :
                              /\ features.data[j][i].den > 0
                              /\ 2 * features.data[j][i].num = features.data[j][i].den
            /\ (p.entry = p.stop_loss) =>
                   p.rr_ratio.den > 0 /\ p.rr_ratio.num = p.rr_ratio.den

\* a long signal on the flat window (every price equal, every volume 0):
\* ATR 0, stop at the entry, ratio 1.0, assessed and answered 200
C16_Witness ==
    /\ Predicted
    /\ request[1].window.kind = "flat"
    /\ TrueRangeSum = 0
    /\ observed[1].predicted.direction = "long"
    /\ observed[1].predicted.stop_loss = observed[1].predicted.entry
    /\ observed[1].predicted.rr_ratio = Frac(1, 1)
    /\ Features[request[1].window].data[5][1] = Frac(1, 2)
    /\ observed[1].assessed
    /\ response[1].status = 200

\* C17: on every validated window and for every direction the levels have
\* entry > 0, stop_loss > 0, every target > 0 and risk_reward > 0, so the
\* SignalPrediction is built and /predict answers 200.
C17_LevelsArePositive ==
    Predicted =>
        LET p == observed[1].predicted
        IN  /\ ~p.raised
            /\ p.entry > 0
            /\ p.stop_loss > 0
            /\ \A k \in 1..Len(p.take_profits) : p.take_profits[k] > 0
            /\ p.rr_ratio.num > 0
            /\ response[1].status = 200

\* the body was answered 422 and predict_signal never ran on it
Rejected ==
    /\ response[1].status = 422
    /\ observed = None
    /\ risk_assessment = None

\* C18: a request holding a candle that breaks low <= open <= high,
\* low <= close <= high or high >= low is answered by a validation error and
\* never reaches predict or assess.
C18_IllFormedCandleRejected ==
    (/\ request # None
     /\ response # None
     /\ \E i \in 1..Len(Candles) :
            LET c == Candles[i]
            IN  ~(/\ c.high >= c.low
                  /\ c.low <= c.open /\ c.open <= c.high
                  /\ c.low <= c.close /\ c.close <= c.high)) => Rejected

\* C19: a request whose window has fewer than 50 or more than 500 candles, or
\* timestamps that are not strictly increasing, is rejected before the
\* pipeline; what predict_signal handles has increasing timestamps and at
\* least 14 candles.
C19_MalformedWindowRejected ==
    (/\ request # None
     /\ response # None
     /\ \/ Len(Candles) < 50
        \/ Len(Candles) > 500
        \/ \E i \in 1..(Len(Candles) - 1) : Candles[i + 1].timestamp <= Candles[i].timestamp)
        => Rejected

\* the factors of assessment a that carry the given name and score
FactorCount(a, name, score) ==
    Cardinality({i \in 1..Len(a.factors) :
                    a.factors[i].name = name /\ a.factors[i].score = score})

\* C20: the checks of assess are independent: each factor is present, once and
\* with its weight, exactly when its own trigger holds -- anomalous move 7, low
\* confidence 6, model disagreement 7, low liquidity 4, neutral signal 3 --
\* and the number of factors is the number of triggers that hold.
C20_FactorsAreIndependent ==
    Assessed =>
        LET a == risk_assessment[1]
            p == observed[1].predicted
            w == Window(request[1].window)
            n == Len(w)
            anomalous == \E i \in 1..(n - 1) :
                             10 * Abs(w[i + 1].close - w[i].close) > w[i].close
            unsure == p.confidence < 85
            disagreed == ~p.shadow_agreed
            illiquid == 2 * 14 * w[n].volume < SumSeq([k \in 1..14 |-> w[n - 14 + k].volume])
            neutral == p.direction = "neutral"
            stale == observed[1].now - request[1].request_timestamp > 5000
            volatile == 100 * SumSeq([k \in 1..14 |-> w[n - 14 + k].high - w[n - 14 + k].low])
                            > 5 * SumSeq([k \in 1..14 |-> w[n - 14 + k].close])
            Holds(t) == IF t THEN 1 ELSE 0
        IN  /\ FactorCount(a, "Anomalous Price Movement", 7) = Holds(anomalous)
            /\ FactorCount(a, "Low Model Confidence", 6) = Holds(unsure)
            /\ FactorCount(a, "Model Disagreement", 7) = Holds(disagreed)
            /\ FactorCount(a, "Low Liquidity", 4) = Holds(illiquid)
            /\ FactorCount(a, "Neutral Signal", 3) = Holds(neutral)
            /\ Len(a.factors) =
                   Holds(anomalous) + Holds(unsure) + Holds(disagreed) + Holds(illiquid)
                   + Holds(neutral) + Holds(stale) + Holds(volatile) + Holds(a.is_drift_detected)

\* the five checks firing together, next to stale data and high volatility
C20_Witness ==
    /\ Assessed
    /\ Len(risk_assessment[1].factors) = 7
    /\ HasFactor(risk_assessment[1], "Anomalous Price Movement")
    /\ HasFactor(risk_assessment[1], "Low Model Confidence")
    /\ HasFactor(risk_assessment[1], "Model Disagreement")
    /\ HasFactor(risk_assessment[1], "Low Liquidity")
    /\ HasFactor(risk_assessment[1], "Neutral Signal")

\* C21: the assessment carries "High Volatility" (category market, severity 5)
\* exactly when the average true range of the last 14 candles -- the 13 true
\* ranges of the level calculator, gaps to the previous close included --
\* divided by their average close exceeds 5%.
C21_VolatilityUsesTrueRange ==
    Assessed =>
        LET a == risk_assessment[1]
            n == Len(Candles)
            closes == SumSeq([k \in 1..14 |-> Candles[n - 14 + k].close])
            volatile == 100 * 14 * TrueRangeSum > 5 * 13 * closes
        IN  /\ HasFactor(a, "High Volatility") <=> volatile
            /\ \A i \in 1..Len(a.factors) :
                  a.factors[i].name = "High Volatility" =>
                      a.factors[i].category = "market" /\ a.factors[i].score = 5

\* C22: when the models agreed the RPN is at most 280 and the level is never
\* CRITICAL; when no check fired the RPN is 4 and the level LOW; a CRITICAL
\* level comes only with disagreeing models.
C22_AgreementExcludesCritical ==
    Assessed =>
        LET a == risk_assessment[1]
        IN  /\ a.is_shadow_model_agreed =>
                   /\ a.risk_score.num <= 280 * a.risk_score.den
                   /\ a.risk_level # "critical"
            /\ (Len(a.factors) = 0) =>
                   /\ a.risk_score.num = 4 * a.risk_score.den
                   /\ a.risk_level = "low"
            /\ (a.risk_level = "critical") => ~observed[1].predicted.shadow_agreed

\* agreeing models with five factors of mean severity 7: the RPN is exactly 280
C22_Witness ==
    /\ Assessed
    /\ observed[1].predicted.shadow_agreed
    /\ Len(risk_assessment[1].factors) = 5
    /\ risk_assessment[1].risk_score.num = 280 * risk_assessment[1].risk_score.den
    /\ risk_assessment[1].risk_level = "high"

\* the mitigation that assess appends together with the factor of each name
MitigationOf(name) ==
    CASE name = "Stale Data" -> "Reject signal and request fresh data"
      [] name = "Anomalous Price Movement" -> "Verify data integrity before execution"
      [] name = "Low Model Confidence" -> "Reduce position size or skip trade"
      [] name = "Model Disagreement" -> "Wait for model consensus before entry"
      [] name = "Model Drift Detected" -> "Trigger model retraining pipeline"
      [] name = "High Volatility" -> "Widen stop-loss or reduce leverage"
      [] name = "Low Liquidity" -> "Use limit orders to avoid slippage"
      [] name = "Neutral Signal" -> "Wait for stronger signal confirmation"

\* C23: in a returned assessment the mitigations are as many as the factors
\* and in the same order, is_stale_data holds iff "Stale Data" is a factor,
\* is_drift_detected iff "Model Drift Detected" is one, and
\* is_shadow_model_agreed iff "Model Disagreement" is none.
C23_MitigationsAndFlagsMatchFactors ==
    Assessed =>
        LET a == risk_assessment[1]
        IN  /\ Len(a.mitigations) = Len(a.factors)
            /\ \A i \in 1..Len(a.factors) : a.mitigations[i] = MitigationOf(a.factors[i].name)
            /\ a.is_stale_data <=> HasFactor(a, "Stale Data")
            /\ a.is_drift_detected <=> HasFactor(a, "Model Drift Detected")
            /\ a.is_shadow_model_agreed <=> ~HasFactor(a, "Model Disagreement")

\* stale data, drift and disagreement together: three flags, three mitigations
\* in the order of the checks
C23_Witness ==
    /\ Assessed
    /\ risk_assessment[1].is_stale_data
    /\ risk_assessment[1].is_drift_detected
    /\ ~risk_assessment[1].is_shadow_model_agreed
    /\ risk_assessment[1].mitigations =
           <<"Reject signal and request fresh data",
             "Wait for model consensus before entry",
             "Trigger model retraining pipeline">>

\* C24: whenever assess has computed its scores they satisfy the bounds of the
\* RiskAssessment schema -- severity, occurrence and detection in [1, 10],
\* risk_score in [0, 1000], every factor score in [0, 10] -- so the
\* RiskAssessment is constructed.
C24_ScoresWithinSchema ==
    (observed # None /\ observed[1].assessed) =>
        /\ Assessed
        /\ LET a == risk_assessment[1]
           IN  /\ a.severity_score.den > 0
               /\ a.severity_score.num >= 1 * a.severity_score.den
               /\ a.severity_score.num <= 10 * a.severity_score.den
               /\ a.occurrence_score >= 1 /\ a.occurrence_score <= 10
               /\ a.detection_score >= 1 /\ a.detection_score <= 10
               /\ a.risk_score.den > 0
               /\ a.risk_score.num >= 0
               /\ a.risk_score.num <= 1000 * a.risk_score.den
               /\ \A i \in 1..Len(a.factors) :
                     a.factors[i].score >= 0 /\ a.factors[i].score <= 10

\* all eight checks firing: occurrence capped at 10, detection 6
C24_Witness ==
    /\ Assessed
    /\ Len(risk_assessment[1].factors) = 8
    /\ risk_assessment[1].occurrence_score = 10
    /\ risk_assessment[1].detection_score = 6
    /\ risk_assessment[1].risk_score = Frac(49 * 10 * 6, 8)

====
